---------------------------- MODULE Spec2Model ----------------------------
(***************************************************************************)
(* processImageForColoring (src/services/imageProcessor.ts): k-means       *)
(* quantization, palette compaction, flood-fill region extraction,         *)
(* small-region merging and region finalization, as a state machine whose  *)
(* steps are the iterations of the function's loops.                        *)
(***************************************************************************)
EXTENDS Integers, Sequences, FiniteSets, TLC

VARIABLES
    pc,                 \* position inside processImageForColoring
    width, height,      \* imageData.width, imageData.height
    data,               \* imageData.data: RGBA bytes (data[i+1] is byte i)
    maxColors,          \* the maxColors argument
    centroids,          \* RGB[] (centroids[c+1] is centroid c)
    assignments,        \* Int8Array(pixelCount), indexed 0..pixelCount-1
    iter,               \* k-means pass counter
    uniqueIndices,      \* sorted distinct values of assignments
    tempPalette,        \* PaletteColor[]
    remappedAssignments,\* Int8Array(pixelCount)
    regionMap,          \* Int32Array(pixelCount)
    regions,            \* Region[] (regions[id+1] is the Region object id)
    visited,            \* Uint8Array(pixelCount)
    scanI,              \* the outer loop index i of the extraction
    stack, stackPtr,    \* the flood-fill stack and its pointer
    colorIdx,           \* colour of the region being filled
    regionPixels,       \* pixels of the region being filled
    currentRegionId,
    activeRegions,      \* Set<number>, in insertion order
    sortedRegionIds,    \* region ids sorted by size at sort time
    mergeIdx,           \* position of the merge loop in sortedRegionIds
    visitLog,           \* history: what the merge loop saw at each turn
    finalRegions,       \* ids of the Region objects of finalRegions
    finIdx,             \* position of the finalize forEach
    maxStackPtr,        \* history: the largest stack pointer seen
    result,             \* the returned ProcessedImage, or "none"
    lastPass,           \* history: centroids before, and bestCluster of
                        \* every pixel in, the latest k-means pass
    file,               \* the exported session file (a JSON document)
    restored,           \* the processedData state after loading a file
    stage,              \* AppStage: "upload" or "coloring"
    filledRegions,      \* Set<number> of filled region ids
    activeColor,        \* <<>> for null, or <<the selected PaletteColor>>
    scale, offset,      \* canvasScale and canvasOffset
    click               \* history: the latest painter operation

vars == <<pc, width, height, data, maxColors, centroids, assignments, iter,
          uniqueIndices, tempPalette, remappedAssignments, regionMap, regions,
          visited, scanI, stack, stackPtr, colorIdx, regionPixels,
          currentRegionId, activeRegions, sortedRegionIds, mergeIdx, visitLog,
          finalRegions, finIdx, maxStackPtr, result, lastPass, file,
          restored, stage, filledRegions, activeColor, scale, offset, click>>

\* the state of the painter
painterVars == <<stage, filledRegions, activeColor, scale, offset, click>>

\* the state of the session export and load, and of the painter
sessionVars == <<file, restored, painterVars>>

---------------------------------------------------------------------------
(* Bounds of the model *)

\* exhaustively enumerated images have at most MaxPixels pixels
MaxPixels == 5
\* maxColors ranges over 0..MaxK
MaxK == 3

---------------------------------------------------------------------------
(* Small helpers *)

Max(a, b) == IF a >= b THEN a ELSE b

\* the JavaScript value read from a typed array outside its range
Undefined == "undefined"

\* for (let iter = 0; iter < iterations; iter++)
iterations == 10

\* RoundDiv that cuts the fraction off
RoundDivDown(n, d) == n \div d

\* Math.round(n / d) for integers n >= 0, d > 0: floor(n/d + 0.5)
RoundDiv(n, d) == (2 * n + d) \div (2 * d)

\* storing x in an Int8Array element (wraps modulo 2^8 into -128..127)
ToInt8(x) == ((x + 128) % 256) - 128

\* data[i]
DataAt(d, i) == IF i + 1 \in DOMAIN d THEN d[i + 1] ELSE Undefined

\* { r: data[rIdx], g: data[rIdx+1], b: data[rIdx+2] }
PixelRGB(d, rIdx) ==
    [r |-> DataAt(d, rIdx), g |-> DataAt(d, rIdx + 1), b |-> DataAt(d, rIdx + 2)]

\* colorDistSq
colorDistSq(c1, c2) ==
    (c1.r - c2.r) * (c1.r - c2.r) + (c1.g - c2.g) * (c1.g - c2.g)
        + (c1.b - c2.b) * (c1.b - c2.b)

\* getContrastColor with yiq > 128 for black
getContrastColorStrict(r, g, b) ==
    IF r * 299 + g * 587 + b * 114 > 128 * 1000 THEN "#000000" ELSE "#ffffff"

\* getContrastColor: yiq = (299r + 587g + 114b) / 1000 >= 128
getContrastColor(r, g, b) ==
    IF r * 299 + g * 587 + b * 114 >= 128 * 1000 THEN "#000000" ELSE "#ffffff"

---------------------------------------------------------------------------
(* Inputs *)

Red == [r |-> 255, g |-> 0, b |-> 0]
Green == [r |-> 0, g |-> 255, b |-> 0]
Colors == {Red, Green}

\* the RGBA buffer of an image given by its pixel colours col[0..n-1]
Bytes(col, n) ==
    [k \in 1 .. 4 * n |->
        LET c == col[(k - 1) \div 4]
            ch == (k - 1) % 4
        IN  IF ch = 0 THEN c.r ELSE IF ch = 1 THEN c.g ELSE IF ch = 2 THEN c.b ELSE 255]

MkImage(w, h, col) == [w |-> w, h |-> h, d |-> Bytes(col, w * h)]

\* all images of at most MaxPixels pixels over Colors
SmallImages ==
    UNION { UNION { { MkImage(w, h, col) : col \in [0 .. w * h - 1 -> Colors] }
                    : h \in 1 .. MaxPixels \div w } : w \in 1 .. MaxPixels }

\* w x h image, one colour
Uniform(w, h, c) == MkImage(w, h, [p \in 0 .. w * h - 1 |-> c])

\* w x h image: rows 0..split-1 of colour a, the rest of colour b
Halves(w, h, split, a, b) ==
    MkImage(w, h, [p \in 0 .. w * h - 1 |-> IF p \div w < split THEN a ELSE b])

\* n x n image of colour b with a centred m x m block of colour a
Ring(n, m, a, b) ==
    LET lo == (n - m) \div 2
        hi == lo + m - 1
        In(p) == /\ p % n >= lo /\ p % n <= hi
                 /\ p \div n >= lo /\ p \div n <= hi
    IN  MkImage(n, n, [p \in 0 .. n * n - 1 |-> IF In(p) THEN a ELSE b])

\* Ring(n, m, a, b) with the extra pixels of S in colour a
RingPlus(n, m, a, b, S) ==
    LET lo == (n - m) \div 2
        hi == lo + m - 1
        In(p) == \/ /\ p % n >= lo /\ p % n <= hi
                    /\ p \div n >= lo /\ p \div n <= hi
                 \/ p \in S
    IN  MkImage(n, n, [p \in 0 .. n * n - 1 |-> IF In(p) THEN a ELSE b])

\* w x h image: columns 0..split-1 of colour a, the rest of colour b, and
\* the pixels of S in colour a
Stripes(w, h, split, a, b, S) ==
    MkImage(w, h, [p \in 0 .. w * h - 1 |->
                      IF p % w < split \/ p \in S THEN a ELSE b])

\* greys around the luminance 128
Grey(v) == [r |-> v, g |-> v, b |-> v]

\* 2 x 1 image, a red and a green pixel, with alpha bytes 0 and 128
Translucent == [w |-> 2, h |-> 1, d |-> <<255, 0, 0, 0, 0, 255, 0, 128>>]

StructuredImages ==
    { Uniform(10, 10, Red),
      Halves(1, 2, 1, Grey(127), Grey(128)),
      Translucent,
      Halves(5, 8, 4, Red, Green),
      Halves(2, 2, 1, Red, Green),
      Ring(7, 5, Red, Green),
      Ring(7, 5, Green, Red),
      RingPlus(7, 5, Red, Green, {0, 21}),
      Ring(5, 1, Red, Green),
      Ring(15, 5, Red, Green),
      RingPlus(15, 5, Green, Red, {16}),
      Stripes(6, 8, 3, Green, Red, {23}) }

\* inputs the ImageData constructor would not build
InvalidImages ==
    { [w |-> 0, h |-> 0, d |-> <<>>],
      [w |-> 0, h |-> 2, d |-> <<>>],
      [w |-> 2, h |-> 0, d |-> <<>>],
      [w |-> 1, h |-> 1, d |-> <<255, 0, 0, 255, 0, 255, 0, 255>>] }

Images == SmallImages \cup StructuredImages \cup InvalidImages

pixelCount == width * height

---------------------------------------------------------------------------
(* 1. Quantization (k-means) *)

\* BestFrom with d <= minDist: the later centroid wins a tie
RECURSIVE BestFromLast(_, _, _, _)
BestFromLast(px, cents, lo, hi) ==
    IF hi <= lo + 1 THEN lo
    ELSE LET mid == (lo + hi) \div 2
             left == BestFromLast(px, cents, lo, mid)
             right == BestFromLast(px, cents, mid, hi)
         IN  IF colorDistSq(px, cents[right + 1]) <= colorDistSq(px, cents[left + 1])
             THEN right ELSE left

\* the inner loop over c restricted to the centroids lo..hi-1: the first
\* centroid at minimal squared distance (d < minDist keeps the earlier one
\* on a tie; the range is split in halves to keep the evaluation shallow)
RECURSIVE BestFrom(_, _, _, _)
BestFrom(px, cents, lo, hi) ==
    IF hi <= lo + 1 THEN lo
    ELSE LET mid == (lo + hi) \div 2
             left == BestFrom(px, cents, lo, mid)
             right == BestFrom(px, cents, mid, hi)
         IN  IF colorDistSq(px, cents[right + 1]) < colorDistSq(px, cents[left + 1])
             THEN right ELSE left

\* bestCluster of a pixel: 0 when the loop over c does not run
BestCluster(px, cents, K) == IF K <= 0 THEN 0 ELSE BestFrom(px, cents, 0, K)

\* bestCluster of every pixel in one pass
BestClusters(d, cents, K, n) ==
    [i \in 0 .. n - 1 |-> BestCluster(PixelRGB(d, i * 4), cents, K)]

\* sums[c*3 + ch] accumulated over the pixels lo..hi-1 (the loop adds them
\* one by one; the sum is split in halves here to keep the evaluation shallow)
RECURSIVE SumCh(_, _, _, _, _, _)
SumCh(d, best, c, ch, lo, hi) ==
    IF hi <= lo THEN 0
    ELSE IF hi = lo + 1
    THEN (IF best[lo] = c THEN DataAt(d, lo * 4 + ch) ELSE 0)
    ELSE LET mid == (lo + hi) \div 2
         IN  SumCh(d, best, c, ch, lo, mid) + SumCh(d, best, c, ch, mid, hi)

\* counts[c] accumulated over the pixels lo..hi-1
RECURSIVE CountOf(_, _, _, _)
CountOf(best, c, lo, hi) ==
    IF hi <= lo THEN 0
    ELSE IF hi = lo + 1
    THEN (IF best[lo] = c THEN 1 ELSE 0)
    ELSE LET mid == (lo + hi) \div 2
         IN  CountOf(best, c, lo, mid) + CountOf(best, c, mid, hi)

\* the centroid of cluster c after the update loop of one pass
NewCentroid(d, best, cents, c, n) ==
    LET cnt == CountOf(best, c, 0, n)
    IN  IF cnt > 0
        THEN [r |-> RoundDiv(SumCh(d, best, c, 0, 0, n), cnt),
              g |-> RoundDiv(SumCh(d, best, c, 1, 0, n), cnt),
              b |-> RoundDiv(SumCh(d, best, c, 2, 0, n), cnt)]
        ELSE cents[c + 1]

\* centroids after one pass in which pixel i chose best[i]; entries beyond
\* maxColors are never updated
UpdatedCentroids(d, best, cents, K, n) ==
    [c1 \in 1 .. Len(cents) |->
        IF c1 <= K THEN NewCentroid(d, best, cents, c1 - 1, n) ELSE cents[c1]]

---------------------------------------------------------------------------
(* Specification, part 1: inputs and quantization *)

\* the state at the entry of processImageForColoring(img, K)
Start(img, K) ==
        /\ width = img.w
        /\ height = img.h
        /\ data = img.d
        /\ maxColors = K
        /\ pc = "sample"
        /\ centroids = <<>>
        /\ assignments = <<>>
        /\ iter = 0
        /\ uniqueIndices = <<>>
        /\ tempPalette = <<>>
        /\ remappedAssignments = <<>>
        /\ regionMap = <<>>
        /\ regions = <<>>
        /\ visited = <<>>
        /\ scanI = 0
        /\ stack = <<>>
        /\ stackPtr = 0
        /\ colorIdx = 0
        /\ regionPixels = <<>>
        /\ currentRegionId = 0
        /\ activeRegions = <<>>
        /\ sortedRegionIds = <<>>
        /\ mergeIdx = 1
        /\ visitLog = <<>>
        /\ finalRegions = <<>>
        /\ finIdx = 1
        /\ maxStackPtr = 0
        /\ result = "none"
        /\ lastPass = [cents |-> <<>>, best |-> <<>>]
        /\ file = [type |-> "none"]
        /\ restored = [loaded |-> FALSE]
        /\ stage = "upload"
        /\ filledRegions = {}
        /\ activeColor = <<>>
        /\ scale = 1
        /\ offset = [x |-> 0, y |-> 0]
        /\ click = [op |-> "none", x |-> 0, y |-> 0]

Init == \E img \in Images, K \in 0 .. MaxK : Start(img, K)

\* Math.floor(Math.random() * pixelCount)
RandomIndices(n) == IF n = 0 THEN {0} ELSE 0 .. n - 1

\* lines 36-45: one random sample pushed on centroids; the first one is
\* pushed whatever maxColors is, the others while i < maxColors
Sample(rnd) ==
    /\ pc = "sample"
    /\ centroids' = Append(centroids, PixelRGB(data, rnd * 4))
    /\ IF Len(centroids) + 1 < maxColors
       THEN /\ pc' = "sample"
            /\ UNCHANGED assignments
       ELSE /\ pc' = "kmeans"
            /\ assignments' = [i \in 0 .. pixelCount - 1 |-> 0]
    /\ UNCHANGED <<lastPass, sessionVars>>
    /\ UNCHANGED <<width, height, data, maxColors, iter, uniqueIndices,
                   tempPalette, remappedAssignments, regionMap, regions,
                   visited, scanI, stack, stackPtr, colorIdx, regionPixels,
                   currentRegionId, activeRegions, sortedRegionIds, mergeIdx,
                   visitLog, finalRegions, finIdx, maxStackPtr, result>>

SampleCentroid == \E rnd \in RandomIndices(pixelCount) : Sample(rnd)

\* lines 48-87: one pass of the k-means loop
KMeansPass ==
    /\ pc = "kmeans"
    /\ iter < iterations
    /\ \E best \in {BestClusters(data, centroids, maxColors, pixelCount)} :
          \E updated \in {UpdatedCentroids(data, best, centroids, maxColors,
                                           pixelCount)} :
              /\ lastPass' = [cents |-> centroids, best |-> best]
              /\ assignments' = [i \in 0 .. pixelCount - 1 |-> ToInt8(best[i])]
              /\ centroids' = updated
              /\ pc' = IF updated = centroids \/ iter + 1 >= iterations
                       THEN "compact" ELSE "kmeans"
    /\ iter' = iter + 1
    /\ UNCHANGED sessionVars
    /\ UNCHANGED <<width, height, data, maxColors, uniqueIndices,
                   tempPalette, remappedAssignments, regionMap, regions,
                   visited, scanI, stack, stackPtr, colorIdx, regionPixels,
                   currentRegionId, activeRegions, sortedRegionIds, mergeIdx,
                   visitLog, finalRegions, finIdx, maxStackPtr, result>>

---------------------------------------------------------------------------
(* Palette compaction *)

\* Array.from(new Set(arr)).sort((a, b) => a - b)
\* (the k-th entry is the value with k-1 smaller values in the set)
SortedSeq(S) ==
    [k \in 1 .. Cardinality(S) |->
        CHOOSE x \in S : Cardinality({y \in S : y < x}) = k - 1]

\* arr.indexOf(v): the first 0-based position of v, or -1
IndexOf(arr, v) ==
    IF \E k \in 1 .. Len(arr) : arr[k] = v
    THEN (CHOOSE k \in 1 .. Len(arr) :
              arr[k] = v /\ \A j \in 1 .. k - 1 : arr[j] # v) - 1
    ELSE -1

\* MakePalette numbering the entries by their centroid index
MakePaletteOldIds(uniq, cents) ==
    [k \in 1 .. Len(uniq) |->
        LET c == cents[uniq[k] + 1]
        IN  [id |-> uniq[k] + 1, rgb |-> c,
             textColor |-> getContrastColor(c.r, c.g, c.b), count |-> 0]]

\* tempPalette: one PaletteColor per used centroid, in index order
MakePalette(uniq, cents) ==
    [k \in 1 .. Len(uniq) |->
        LET c == cents[uniq[k] + 1]
        IN  [id |-> k, rgb |-> c,
             textColor |-> getContrastColor(c.r, c.g, c.b), count |-> 0]]

\* remappedAssignments[i] = uniqueIndices.indexOf(assignments[i])
Remap(uniq, asg) == [i \in DOMAIN asg |-> ToInt8(IndexOf(uniq, asg[i]))]

\* lines 89-110: palette, remapped assignments and the extraction buffers;
\* centroids[oldIdx].r throws when oldIdx is no index of centroids
Compact ==
    /\ pc = "compact"
    /\ \E uniq \in {SortedSeq({assignments[i] : i \in DOMAIN assignments})} :
          /\ uniqueIndices' = uniq
          /\ IF \A k \in 1 .. Len(uniq) : uniq[k] + 1 \in DOMAIN centroids
             THEN /\ tempPalette' = MakePalette(uniq, centroids)
                  /\ remappedAssignments' = Remap(uniq, assignments)
                  /\ regionMap' = [i \in 0 .. pixelCount - 1 |-> -1]
                  /\ visited' = [i \in 0 .. pixelCount - 1 |-> 0]
                  /\ stack' = [i \in 0 .. pixelCount - 1 |-> 0]
                  /\ pc' = "extract"
             ELSE /\ pc' = "threw"
                  /\ UNCHANGED <<tempPalette, remappedAssignments, regionMap,
                                 visited, stack>>
    /\ UNCHANGED <<lastPass, sessionVars>>
    /\ UNCHANGED <<width, height, data, maxColors, centroids, assignments,
                   iter, regions, scanI, stackPtr, colorIdx, regionPixels,
                   currentRegionId, activeRegions, sortedRegionIds, mergeIdx,
                   visitLog, finalRegions, finIdx, maxStackPtr, result>>

---------------------------------------------------------------------------
(* 2. Region extraction (connected components) *)

\* FillNeighbors without the column guards: the left and right neighbours
\* across a row end
FillNeighborsWrap(pIdx, w) == <<pIdx - w, pIdx + w, pIdx - 1, pIdx + 1>>

\* FillNeighbors without the neighbour below
FillNeighborsNoDown(pIdx, w) ==
    LET px == pIdx % w
    IN  <<pIdx - w,
          IF px > 0 THEN pIdx - 1 ELSE -1,
          IF px < w - 1 THEN pIdx + 1 ELSE -1>>

\* the neighbors array of the flood fill (lines 127-133)
FillNeighbors(pIdx, w) ==
    LET px == pIdx % w
    IN  <<pIdx - w, pIdx + w,
          IF px > 0 THEN pIdx - 1 ELSE -1,
          IF px < w - 1 THEN pIdx + 1 ELSE -1>>

\* a store into a typed array: ignored outside its range
TypedSet(arr, i, v) == IF i \in DOMAIN arr THEN [arr EXCEPT ![i] = v] ELSE arr

\* the for loop over neighbors (lines 135-140) from position k on, with the
\* state st = [visited, stack, stackPtr] it updates
RECURSIVE PushNeighbors(_, _, _, _, _, _)
PushNeighbors(nbs, k, st, remapped, color, n) ==
    IF k > Len(nbs) THEN st
    ELSE LET nIdx == nbs[k]
         IN  IF /\ nIdx >= 0 /\ nIdx < n
                /\ st.visited[nIdx] = 0
                /\ remapped[nIdx] = color
             THEN PushNeighbors(nbs, k + 1,
                      [visited |-> [st.visited EXCEPT ![nIdx] = 1],
                       stack |-> TypedSet(st.stack, st.stackPtr, nIdx),
                       stackPtr |-> st.stackPtr + 1],
                      remapped, color, n)
             ELSE PushNeighbors(nbs, k + 1, st, remapped, color, n)

\* line 113: if (visited[i]) continue
ExtractSkip ==
    /\ pc = "extract"
    /\ scanI < pixelCount
    /\ visited[scanI] # 0
    /\ scanI' = scanI + 1
    /\ UNCHANGED <<lastPass, sessionVars>>
    /\ UNCHANGED <<pc, width, height, data, maxColors, centroids, assignments,
                   iter, uniqueIndices, tempPalette, remappedAssignments,
                   regionMap, regions, visited, stack, stackPtr, colorIdx,
                   regionPixels, currentRegionId, activeRegions,
                   sortedRegionIds, mergeIdx, visitLog, finalRegions, finIdx,
                   maxStackPtr, result>>

\* lines 115-120: a new region starts at the unvisited pixel i
ExtractStart ==
    /\ pc = "extract"
    /\ scanI < pixelCount
    /\ visited[scanI] = 0
    /\ colorIdx' = remappedAssignments[scanI]
    /\ stack' = TypedSet(stack, 0, scanI)
    /\ stackPtr' = 1
    /\ maxStackPtr' = Max(maxStackPtr, 1)
    /\ visited' = [visited EXCEPT ![scanI] = 1]
    /\ regionPixels' = <<>>
    /\ pc' = "fill"
    /\ UNCHANGED <<lastPass, sessionVars>>
    /\ UNCHANGED <<width, height, data, maxColors, centroids, assignments,
                   iter, uniqueIndices, tempPalette, remappedAssignments,
                   regionMap, regions, scanI, currentRegionId, activeRegions,
                   sortedRegionIds, mergeIdx, visitLog, finalRegions, finIdx,
                   result>>

\* lines 122-141: one iteration of while (stackPtr > 0)
FloodStep ==
    /\ pc = "fill"
    /\ stackPtr > 0
    /\ LET pIdx == stack[stackPtr - 1]
           st == PushNeighbors(FillNeighbors(pIdx, width), 1,
                     [visited |-> visited, stack |-> stack,
                      stackPtr |-> stackPtr - 1],
                     remappedAssignments, colorIdx, pixelCount)
       IN  /\ regionMap' = [regionMap EXCEPT ![pIdx] = currentRegionId]
           /\ regionPixels' = Append(regionPixels, pIdx)
           /\ visited' = st.visited
           /\ stack' = st.stack
           /\ stackPtr' = st.stackPtr
    /\ maxStackPtr' = Max(maxStackPtr, stackPtr')
    /\ UNCHANGED <<lastPass, sessionVars>>
    /\ UNCHANGED <<pc, width, height, data, maxColors, centroids, assignments,
                   iter, uniqueIndices, tempPalette, remappedAssignments,
                   regions, scanI, colorIdx, currentRegionId, activeRegions,
                   sortedRegionIds, mergeIdx, visitLog, finalRegions, finIdx,
                   result>>

\* lines 143-150: the filled region is recorded
RegionPush ==
    /\ pc = "fill"
    /\ stackPtr = 0
    /\ regions' = Append(regions,
                      [id |-> currentRegionId, colorId |-> colorIdx,
                       pixels |-> regionPixels,
                       centroid |-> [x |-> 0, y |-> 0],
                       borderPixels |-> <<>>])
    /\ currentRegionId' = currentRegionId + 1
    /\ scanI' = scanI + 1
    /\ pc' = "extract"
    /\ UNCHANGED <<lastPass, sessionVars>>
    /\ UNCHANGED <<width, height, data, maxColors, centroids, assignments,
                   iter, uniqueIndices, tempPalette, remappedAssignments,
                   regionMap, visited, stack, stackPtr, colorIdx,
                   regionPixels, activeRegions, sortedRegionIds, mergeIdx,
                   visitLog, finalRegions, finIdx, maxStackPtr, result>>

---------------------------------------------------------------------------
(* 3. Merge small regions *)

\* DynamicMinSize without the lower limit of 20
DynamicMinSizeFloor(n) == n \div 40000

\* Math.max(20, Math.floor(pixelCount / 40000))
DynamicMinSize(n) == Max(20, n \div 40000)

\* Set.has and Set.delete on a Set kept as the sequence of its elements in
\* insertion order
SetHas(set, x) == \E k \in 1 .. Len(set) : set[k] = x
\* SetDelete that deletes nothing
SetDeleteNone(set, x) == set
SetDelete(set, x) == SelectSeq(set, LAMBDA y : y # x)
SetAdd(set, x) == IF SetHas(set, x) THEN set ELSE Append(set, x)

\* SortBySize that leaves the ids in the order of the Set
SortByNothing(ids, k, regs, acc) == ids

\* SortBySize as an unstable sort: an element goes in front of its equals
RECURSIVE SortBySizeUnstable(_, _, _, _)
SortBySizeUnstable(ids, k, regs, acc) ==
    IF k > Len(ids) THEN acc
    ELSE LET x == ids[k]
             sz(id) == Len(regs[id + 1].pixels)
             before == SelectSeq(acc, LAMBDA y : sz(y) < sz(x))
             after == SelectSeq(acc, LAMBDA y : sz(y) >= sz(x))
         IN  SortBySizeUnstable(ids, k + 1, regs, before \o <<x>> \o after)

\* Array.prototype.sort with the comparator of line 164 (a stable sort):
\* ids[k..] inserted one by one behind the elements that are not larger
RECURSIVE SortBySize(_, _, _, _)
SortBySize(ids, k, regs, acc) ==
    IF k > Len(ids) THEN acc
    ELSE LET x == ids[k]
             sz(id) == Len(regs[id + 1].pixels)
             before == SelectSeq(acc, LAMBDA y : sz(y) <= sz(x))
             after == SelectSeq(acc, LAMBDA y : sz(y) > sz(x))
         IN  SortBySize(ids, k + 1, regs, before \o <<x>> \o after)

\* MergeAdjs without the column guards
MergeAdjsWrap(pIdx, w) == <<pIdx - w, pIdx + w, pIdx - 1, pIdx + 1>>

\* the adjs array of the merge loop (lines 176-177)
MergeAdjs(pIdx, w) ==
    LET px == pIdx % w
    IN  <<pIdx - w, pIdx + w,
          IF px > 0 THEN pIdx - 1 ELSE -1,
          IF px < w - 1 THEN pIdx + 1 ELSE -1>>

\* lines 178-185: the loop over adjs from position k on
RECURSIVE ScanAdjs(_, _, _, _, _, _, _)
ScanAdjs(adjs, k, acc, rm, active, id, n) ==
    IF k > Len(adjs) THEN acc
    ELSE LET adj == adjs[k]
         IN  IF /\ adj >= 0 /\ adj < n
                /\ rm[adj] # id
                /\ SetHas(active, rm[adj])
             THEN ScanAdjs(adjs, k + 1, SetAdd(acc, rm[adj]), rm, active, id, n)
             ELSE ScanAdjs(adjs, k + 1, acc, rm, active, id, n)

\* FindNeighbors that looks around the first pixel of the region only
FindNeighborsSeedOnly(pixels, k, acc, rm, active, id, w, n) ==
    ScanAdjs(MergeAdjs(pixels[1], w), 1, acc, rm, active, id, n)

\* lines 174-186: the neighbors Set of a region, in discovery order
RECURSIVE FindNeighbors(_, _, _, _, _, _, _, _)
FindNeighbors(pixels, k, acc, rm, active, id, w, n) ==
    IF k > Len(pixels) THEN acc
    ELSE FindNeighbors(pixels, k + 1,
             ScanAdjs(MergeAdjs(pixels[k], w), 1, acc, rm, active, id, n),
             rm, active, id, w, n)

\* lines 189-208: the neighbour of the most similar palette colour, the
\* first one on equal distance (minColorDiff = -1 stands for Infinity)
RECURSIVE BestNeighborFrom(_, _, _, _, _, _, _)
BestNeighborFrom(nbs, k, region, regs, palette, minColorDiff, bestNeighbor) ==
    IF k > Len(nbs) THEN bestNeighbor
    ELSE LET nid == nbs[k]
             c1 == palette[region.colorId + 1].rgb
             c2 == palette[regs[nid + 1].colorId + 1].rgb
             diff == colorDistSq(c1, c2)
         IN  IF minColorDiff = -1 \/ diff < minColorDiff
             THEN BestNeighborFrom(nbs, k + 1, region, regs, palette, diff, nid)
             ELSE BestNeighborFrom(nbs, k + 1, region, regs, palette,
                                   minColorDiff, bestNeighbor)

\* BestNeighbor that takes the first neighbour found, whatever its colour
BestNeighborFirst(nbs, region, regs, palette) ==
    IF nbs = <<>> THEN -1 ELSE nbs[1]

BestNeighbor(nbs, region, regs, palette) ==
    BestNeighborFrom(nbs, 1, region, regs, palette, -1, -1)

\* RewriteMap that gives the whole image to the target
RewriteMapAll(rm, pixels, bestNeighbor) == [p \in DOMAIN rm |-> bestNeighbor]

\* RewriteMap that leaves regionMap as it was
RewriteMapNone(rm, pixels, bestNeighbor) == rm

\* lines 214-217: regionMap[p] = bestNeighbor for the pixels of the region
RewriteMap(rm, pixels, bestNeighbor) ==
    LET S == {pixels[k] : k \in 1 .. Len(pixels)}
    IN  [p \in DOMAIN rm |-> IF p \in S THEN bestNeighbor ELSE rm[p]]

\* PushPixels that forgets to hand the pixels over to the target
PushPixelsNone(regs, pixels, bestNeighbor) == regs

\* lines 214-217: target.pixels.push(p) for the pixels of the region
PushPixels(regs, pixels, bestNeighbor) ==
    [regs EXCEPT ![bestNeighbor + 1].pixels = @ \o pixels]

\* lines 156-165: the active set and the visiting order
MergeSetup ==
    /\ pc = "extract"
    /\ scanI >= pixelCount
    /\ activeRegions' = [k \in 1 .. Len(regions) |-> regions[k].id]
    /\ sortedRegionIds' = SortBySize(activeRegions', 1, regions, <<>>)
    /\ mergeIdx' = 1
    /\ pc' = "merge"
    /\ UNCHANGED <<lastPass, sessionVars>>
    /\ UNCHANGED <<width, height, data, maxColors, centroids, assignments,
                   iter, uniqueIndices, tempPalette, remappedAssignments,
                   regionMap, regions, visited, scanI, stack, stackPtr,
                   colorIdx, regionPixels, currentRegionId, visitLog,
                   finalRegions, finIdx, maxStackPtr, result>>

\* lines 167-220: one iteration of for (const rId of sortedRegionIds)
MergeStep ==
    /\ pc = "merge"
    /\ mergeIdx <= Len(sortedRegionIds)
    /\ mergeIdx' = mergeIdx + 1
    /\ LET rId == sortedRegionIds[mergeIdx]
           region == regions[rId + 1]
       IN  IF Len(region.pixels) >= DynamicMinSize(pixelCount)
           THEN /\ visitLog' = Append(visitLog,
                       [id |-> rId, size |-> Len(region.pixels),
                        small |-> FALSE, neighbors |-> <<>>, best |-> -1])
                /\ UNCHANGED <<regionMap, regions, activeRegions>>
           ELSE LET nbs == FindNeighbors(region.pixels, 1, <<>>, regionMap,
                                         activeRegions, region.id, width,
                                         pixelCount)
                    bestNeighbor == BestNeighbor(nbs, region, regions, tempPalette)
                IN  /\ visitLog' = Append(visitLog,
                           [id |-> rId, size |-> Len(region.pixels),
                            small |-> TRUE, neighbors |-> nbs,
                            best |-> bestNeighbor])
                    /\ IF bestNeighbor # -1
                       THEN /\ regionMap' =
                                   RewriteMap(regionMap, region.pixels, bestNeighbor)
                            /\ regions' =
                                   PushPixels(regions, region.pixels, bestNeighbor)
                            /\ activeRegions' = SetDelete(activeRegions, region.id)
                       ELSE UNCHANGED <<regionMap, regions, activeRegions>>
    /\ UNCHANGED <<lastPass, sessionVars>>
    /\ UNCHANGED <<pc, width, height, data, maxColors, centroids, assignments,
                   iter, uniqueIndices, tempPalette, remappedAssignments,
                   visited, scanI, stack, stackPtr, colorIdx, regionPixels,
                   currentRegionId, sortedRegionIds, finalRegions, finIdx,
                   maxStackPtr, result>>

\* line 222: finalRegions = Array.from(activeRegions).map(...)
MergeDone ==
    /\ pc = "merge"
    /\ mergeIdx > Len(sortedRegionIds)
    /\ finalRegions' = activeRegions
    /\ finIdx' = 1
    /\ pc' = "finalize"
    /\ UNCHANGED <<lastPass, sessionVars>>
    /\ UNCHANGED <<width, height, data, maxColors, centroids, assignments,
                   iter, uniqueIndices, tempPalette, remappedAssignments,
                   regionMap, regions, visited, scanI, stack, stackPtr,
                   colorIdx, regionPixels, currentRegionId, activeRegions,
                   sortedRegionIds, mergeIdx, visitLog, maxStackPtr, result>>

---------------------------------------------------------------------------
(* 4. Finalize: borders and centroids *)

\* BorderNeighbors without the column guards: the left and right
\* neighbours wrap to the adjacent rows
BorderNeighborsWrap(pIdx, w) == <<pIdx - w, pIdx + w, pIdx - 1, pIdx + 1>>

\* the neighbors array of the border test (lines 236-241)
BorderNeighbors(pIdx, w) ==
    LET px == pIdx % w
    IN  <<pIdx - w, pIdx + w,
          IF px > 0 THEN pIdx - 1 ELSE -1,
          IF px < w - 1 THEN pIdx + 1 ELSE -1>>

\* lines 243-249: isBorder
IsBorder(pIdx, rm, id, w, n) ==
    LET nbs == BorderNeighbors(pIdx, w)
    IN  \E k \in 1 .. Len(nbs) :
            nbs[k] < 0 \/ nbs[k] >= n \/ rm[nbs[k]] # id

\* lines 228-253: borders, in the order of region.pixels
Borders(pixels, rm, id, w, n) ==
    SelectSeq(pixels, LAMBDA p : IsBorder(p, rm, id, w, n))

\* sumX (xs = TRUE) or sumY over pixels[lo..hi-1], split in halves
RECURSIVE SumCoord(_, _, _, _, _)
SumCoord(pixels, xs, w, lo, hi) ==
    IF hi <= lo THEN 0
    ELSE IF hi = lo + 1
    THEN (IF xs THEN pixels[lo] % w ELSE pixels[lo] \div w)
    ELSE LET mid == (lo + hi) \div 2
         IN  SumCoord(pixels, xs, w, lo, mid) + SumCoord(pixels, xs, w, mid, hi)

\* NearestSample with d <= minD: the latest sample wins a tie
RECURSIVE NearestSampleLast(_, _, _, _, _, _, _)
NearestSampleLast(pixels, step, w, cx, cy, lo, hi) ==
    IF hi = lo + 1
    THEN LET p == pixels[lo * step + 1]
             dx == (p % w) - cx
             dy == (p \div w) - cy
         IN  [d |-> dx * dx + dy * dy, p |-> p]
    ELSE LET mid == (lo + hi) \div 2
             l == NearestSampleLast(pixels, step, w, cx, cy, lo, mid)
             r == NearestSampleLast(pixels, step, w, cx, cy, mid, hi)
         IN  IF r.d <= l.d THEN r ELSE l

\* lines 263-277: the sampled pixel nearest to (cx, cy) among the positions
\* lo*step .. (hi-1)*step of pixels, the earliest one on equal distance
RECURSIVE NearestSample(_, _, _, _, _, _, _)
NearestSample(pixels, step, w, cx, cy, lo, hi) ==
    IF hi = lo + 1
    THEN LET p == pixels[lo * step + 1]
             dx == (p % w) - cx
             dy == (p \div w) - cy
         IN  [d |-> dx * dx + dy * dy, p |-> p]
    ELSE LET mid == (lo + hi) \div 2
             l == NearestSample(pixels, step, w, cx, cy, lo, mid)
             r == NearestSample(pixels, step, w, cx, cy, mid, hi)
         IN  IF r.d < l.d THEN r ELSE l

\* lines 256-257: the rounded mean of the pixel coordinates
RawCentroid(pixels, w) ==
    [x |-> RoundDiv(SumCoord(pixels, TRUE, w, 1, Len(pixels) + 1), Len(pixels)),
     y |-> RoundDiv(SumCoord(pixels, FALSE, w, 1, Len(pixels) + 1), Len(pixels))]

\* Anchor without the correction of a centroid outside the region
AnchorRaw(pixels, rm, id, w) == RawCentroid(pixels, w)

\* lines 255-282: region.centroid
Anchor(pixels, rm, id, w) ==
    LET len == Len(pixels)
        raw == RawCentroid(pixels, w)
        cx == raw.x
        cy == raw.y
    IN  IF rm[cy * w + cx] # id
        THEN LET step == Max(1, len \div 100)
                 samples == (len + step - 1) \div step
                 bestP == NearestSample(pixels, step, w, cx, cy, 0, samples).p
             IN  [x |-> bestP % w, y |-> bestP \div w]
        ELSE [x |-> cx, y |-> cy]

\* AddCount counting regions instead of pixels
AddCountRegions(palette, colorId, len) ==
    [palette EXCEPT ![colorId + 1].count = @ + 1]

\* line 284: tempPalette[region.colorId].count += region.pixels.length
AddCount(palette, colorId, len) ==
    [palette EXCEPT ![colorId + 1].count = @ + len]

\* lines 225-285: the forEach callback on one region of finalRegions
FinalizeRegion ==
    /\ pc = "finalize"
    /\ finIdx <= Len(finalRegions)
    /\ LET id == finalRegions[finIdx]
           region == regions[id + 1]
       IN  /\ regions' =
                  [regions EXCEPT
                      ![id + 1].borderPixels =
                          Borders(region.pixels, regionMap, region.id, width,
                                  pixelCount),
                      ![id + 1].centroid =
                          Anchor(region.pixels, regionMap, region.id, width)]
           /\ tempPalette' =
                  AddCount(tempPalette, region.colorId, Len(region.pixels))
    /\ finIdx' = finIdx + 1
    /\ UNCHANGED <<lastPass, sessionVars>>
    /\ UNCHANGED <<pc, width, height, data, maxColors, centroids, assignments,
                   iter, uniqueIndices, remappedAssignments, regionMap,
                   visited, scanI, stack, stackPtr, colorIdx, regionPixels,
                   currentRegionId, activeRegions, sortedRegionIds, mergeIdx,
                   visitLog, finalRegions, maxStackPtr, result>>

\* a copy of the bytes through an Int8Array
Int8ArrayFrom(d) == [k \in 1 .. Len(d) |-> ToInt8(d[k])]

\* new Uint8ClampedArray(d): a new array of the same length whose elements
\* are those of d clamped to 0..255
Uint8ClampedArrayFrom(d) ==
    [k \in 1 .. Len(d) |-> IF d[k] < 0 THEN 0 ELSE IF d[k] > 255 THEN 255 ELSE d[k]]

\* lines 287-294: the returned ProcessedImage
Return ==
    /\ pc = "finalize"
    /\ finIdx > Len(finalRegions)
    /\ result' = [originalWidth |-> width,
                  originalHeight |-> height,
                  regions |-> [k \in 1 .. Len(finalRegions) |->
                                  regions[finalRegions[k] + 1]],
                  palette |-> tempPalette,
                  pixelData |-> Uint8ClampedArrayFrom(data),
                  regionMap |-> regionMap]
    /\ pc' = "done"
    /\ UNCHANGED <<lastPass, sessionVars>>
    /\ UNCHANGED <<width, height, data, maxColors, centroids, assignments,
                   iter, uniqueIndices, tempPalette, remappedAssignments,
                   regionMap, regions, visited, scanI, stack, stackPtr,
                   colorIdx, regionPixels, currentRegionId, activeRegions,
                   sortedRegionIds, mergeIdx, visitLog, finalRegions, finIdx,
                   maxStackPtr>>

---------------------------------------------------------------------------
(* 5. Session export and load *)

\* a JavaScript array-like value: its constructor, its length and its
\* elements in index order
JSValue(kind, items) == [kind |-> kind, length |-> Len(items), items |-> items]

\* the ProcessedImage held in the processedData state after
\* setProcessedData(result): regions and palette are Arrays, pixelData is a
\* Uint8ClampedArray and regionMap an Int32Array
ProcessedData(res) ==
    [originalWidth |-> res.originalWidth,
     originalHeight |-> res.originalHeight,
     regions |-> JSValue("Array", res.regions),
     palette |-> JSValue("Array", res.palette),
     pixelData |-> JSValue("Uint8ClampedArray", res.pixelData),
     regionMap |-> JSValue("Int32Array",
                           [k \in 1 .. Cardinality(DOMAIN res.regionMap) |->
                               res.regionMap[k - 1]])]

\* JSON.stringify of an array-like value: an Array becomes a JSON array; a
\* typed array has no toJSON and is written as a JSON object whose members
\* are its own enumerable properties, the indexes "0", "1", ...
JSONstringify(v) ==
    IF v.kind = "Array"
    THEN [type |-> "array", items |-> v.items]
    ELSE [type |-> "object",
          members |-> [k \in 1 .. Len(v.items) |->
                          [key |-> ToString(k - 1), value |-> v.items[k]]]]

\* JSON.parse of a JSON array or object: an Array, or a plain Object with
\* the members as properties (and no length)
JSONparse(doc) ==
    IF doc.type = "array"
    THEN JSValue("Array", doc.items)
    ELSE [kind |-> "Object", members |-> doc.members]

\* createSessionData: the fields of SessionData that loading reads back;
\* no region is filled
createSessionData ==
    [version |-> 1,
     processedData |-> ProcessedData(result),
     filledRegions |-> JSValue("Array", <<>>)]

\* handleExportFile: the session written as JSON into the .chroma file
ExportFile ==
    /\ pc = "done"
    /\ file.type = "none"
    /\ LET session == createSessionData
           pd == session.processedData
       IN  file' = [type |-> "chroma",
                    version |-> session.version,
                    processedData |->
                        [originalWidth |-> pd.originalWidth,
                         originalHeight |-> pd.originalHeight,
                         regions |-> JSONstringify(pd.regions),
                         palette |-> JSONstringify(pd.palette),
                         pixelData |-> JSONstringify(pd.pixelData),
                         regionMap |-> JSONstringify(pd.regionMap)],
                    filledRegions |-> JSONstringify(session.filledRegions)]
    /\ UNCHANGED <<pc, width, height, data, maxColors, centroids, assignments,
                   iter, uniqueIndices, tempPalette, remappedAssignments,
                   regionMap, regions, visited, scanI, stack, stackPtr,
                   colorIdx, regionPixels, currentRegionId, activeRegions,
                   sortedRegionIds, mergeIdx, visitLog, finalRegions, finIdx,
                   maxStackPtr, result, lastPass, restored, painterVars>>

\* loadFromFile and restoreSession: the file parsed and, as it has a
\* version and a processedData, its processedData and filledRegions taken
\* as the state
LoadFile ==
    /\ file.type = "chroma"
    /\ ~restored.loaded
    /\ file.version # 0
    /\ LET pd == file.processedData
       IN  restored' =
               [loaded |-> TRUE,
                processedData |->
                    [originalWidth |-> pd.originalWidth,
                     originalHeight |-> pd.originalHeight,
                     regions |-> JSONparse(pd.regions),
                     palette |-> JSONparse(pd.palette),
                     pixelData |-> JSONparse(pd.pixelData),
                     regionMap |-> JSONparse(pd.regionMap)],
                filledRegions |->
                    LET ids == JSONparse(file.filledRegions).items
                    IN  {ids[k] : k \in 1 .. Len(ids)}]
    /\ UNCHANGED <<pc, width, height, data, maxColors, centroids, assignments,
                   iter, uniqueIndices, tempPalette, remappedAssignments,
                   regionMap, regions, visited, scanI, stack, stackPtr,
                   colorIdx, regionPixels, currentRegionId, activeRegions,
                   sortedRegionIds, mergeIdx, visitLog, finalRegions, finIdx,
                   maxStackPtr, result, lastPass, file, painterVars>>

Next ==
    \/ SampleCentroid
    \/ KMeansPass
    \/ Compact
    \/ ExtractSkip
    \/ ExtractStart
    \/ FloodStep
    \/ RegionPush
    \/ MergeSetup
    \/ MergeStep
    \/ MergeDone
    \/ FinalizeRegion
    \/ Return
    \/ ExportFile
    \/ LoadFile

Spec == Init /\ [][Next]_vars

---------------------------------------------------------------------------
(* Runs with given draws of the initial samples *)

\* the number of clusters of the wide run: the first maxColors whose largest
\* cluster index, WideK - 1, exceeds 127
WideK == 129

\* WideK x 1 image whose pixel i is the grey (i, i, i)
Ramp == MkImage(WideK, 1, [p \in 0 .. WideK - 1 |-> [r |-> p, g |-> p, b |-> p]])

\* 33 x 1 image: thirty pixels (x, 1, 0) with the x below, then (19, 2, 0),
\* (18, 2, 0) and (19, 1, 0)
Slow ==
    LET xs == <<0, 0, 1, 1, 2, 2, 3, 3, 4, 4, 5, 8, 9, 9, 11, 11, 12, 12, 13,
                14, 15, 15, 15, 15, 15, 15, 15, 15, 15, 16>>
        col(p) == IF p < 30 THEN [r |-> xs[p + 1], g |-> 1, b |-> 0]
                  ELSE IF p = 30 THEN [r |-> 19, g |-> 2, b |-> 0]
                  ELSE IF p = 31 THEN [r |-> 18, g |-> 2, b |-> 0]
                  ELSE [r |-> 19, g |-> 1, b |-> 0]
    IN  MkImage(33, 1, [p \in 0 .. 32 |-> col(p)])

\* calls together with the pixel indexes Math.random() draws for the
\* initial samples (draw[i] is the i-th draw, from 0)
DrawnRuns ==
    { [img |-> Ramp, K |-> WideK, draw |-> [i \in 0 .. WideK - 1 |-> i]],
      [img |-> Slow, K |-> 5,
       draw |-> [i \in 0 .. 4 |-> <<32, 30, 2, 20, 0>>[i + 1]]] }

InitDrawn == \E run \in DrawnRuns : Start(run.img, run.K)

\* the sampling step under the draws of the run
SampleDrawn ==
    \E run \in {r \in DrawnRuns : r.img.w = width /\ r.img.d = data} :
        \E i \in DOMAIN run.draw \cap {Len(centroids)} : Sample(run.draw[i])

NextDrawn ==
    \/ SampleDrawn
    \/ KMeansPass
    \/ Compact
    \/ ExtractSkip
    \/ ExtractStart
    \/ FloodStep
    \/ RegionPush
    \/ MergeSetup
    \/ MergeStep
    \/ MergeDone
    \/ FinalizeRegion
    \/ Return

SpecDrawn == InitDrawn /\ [][NextDrawn]_vars

\* the calls of Spec together with the 33 x 1 run, whose k-means loop runs
\* all its passes
InitPasses == Init \/ Start(Slow, 5)

\* the sampling step: the draws of the run for the 33 x 1 image, any draw
\* for the others
SamplePasses ==
    IF width = Slow.w /\ data = Slow.d THEN SampleDrawn ELSE SampleCentroid

NextPasses ==
    \/ SamplePasses
    \/ KMeansPass
    \/ Compact
    \/ ExtractSkip
    \/ ExtractStart
    \/ FloodStep
    \/ RegionPush
    \/ MergeSetup
    \/ MergeStep
    \/ MergeDone
    \/ FinalizeRegion
    \/ Return

SpecPasses == InitPasses /\ [][NextPasses]_vars

---------------------------------------------------------------------------
(* 6. The painter: a session started by processing an image *)

\* the pipeline variables, which no painter operation assigns
pipelineVars ==
    <<pc, width, height, data, maxColors, centroids, assignments, iter,
      uniqueIndices, tempPalette, remappedAssignments, regionMap, regions,
      visited, scanI, stack, stackPtr, colorIdx, regionPixels,
      currentRegionId, activeRegions, sortedRegionIds, mergeIdx, visitLog,
      finalRegions, finIdx, maxStackPtr, result, lastPass>>

\* images whose result has two regions of different colours, or one region
PaintImages == {Halves(5, 8, 4, Red, Green), Halves(2, 2, 1, Red, Green)}

\* the values onZoom and onPan are called with
Scales == {1, 2}
Offsets == {[x |-> 0, y |-> 0], [x |-> 1, y |-> 2]}

\* pointer positions relative to the container of the canvas
ClientXs == {-1, 0, 1, width - 1, width, 2 * width - 1, 2 * width + 1}
ClientYs == {-1, 0, 1, height - 1, height, 2 * height - 1, 2 * height + 2}

InitPaint == \E img \in PaintImages : Start(img, 2)

\* App.tsx lines 326-331: the result becomes processedData, filledRegions
\* is emptied and the first palette colour is selected
StartSession ==
    /\ pc = "done"
    /\ stage = "upload"
    /\ filledRegions' = {}
    /\ activeColor' = IF Len(result.palette) > 0
                      THEN <<result.palette[1]>> ELSE activeColor
    /\ stage' = "coloring"
    /\ click' = [op |-> "start", x |-> 0, y |-> 0]
    /\ UNCHANGED <<scale, offset, file, restored, pipelineVars>>

\* the palette buttons: setActiveColor(color) with a colour of
\* currentPalette, which has the ids of processedData.palette
SelectColor ==
    /\ stage = "coloring"
    /\ \E c \in 1 .. Len(result.palette) :
           /\ activeColor' = <<result.palette[c]>>
           /\ click' = [op |-> "select", x |-> c, y |-> 0]
    /\ UNCHANGED <<stage, filledRegions, scale, offset, file, restored,
                   pipelineVars>>

\* handleWheel and the pinch gesture: onZoom(newScale)
Zoom ==
    /\ stage = "coloring"
    /\ \E z \in Scales :
           /\ scale' = z
           /\ click' = [op |-> "zoom", x |-> z, y |-> 0]
    /\ UNCHANGED <<stage, filledRegions, activeColor, offset, file, restored,
                   pipelineVars>>

\* dragging with the pan tool: onPan(x, y)
Pan ==
    /\ stage = "coloring"
    /\ \E o \in Offsets :
           /\ offset' = o
           /\ click' = [op |-> "pan", x |-> o.x, y |-> o.y]
    /\ UNCHANGED <<stage, filledRegions, activeColor, scale, file, restored,
                   pipelineVars>>

\* isMatch with the palette id taken for the palette index
IsMatchSameNumber(color, region) == color.id = region.colorId

\* performFill: isMatch = activeColor.id - 1 === region.colorId
IsMatch(color, region) == color.id - 1 = region.colorId

\* data.regions.find(r => r.id === regionId): <<>> for undefined
FindRegion(regs, regionId) == SelectSeq(regs, LAMBDA r : r.id = regionId)

\* onFillRegion(regionId): the set with regionId added when it is not in
\* the set and a colour is active
OnFillRegion(filled, color, regionId) ==
    IF regionId \notin filled /\ color # <<>> THEN filled \cup {regionId} ELSE filled

\* performFill(clientX, clientY) with showOriginal false: the click is
\* resolved to the image pixel (x, y) under the current pan and zoom, and
\* onFillRegion is called for a region of the active colour that is not
\* filled yet
PerformFill ==
    /\ stage = "coloring"
    /\ \E cx \in ClientXs, cy \in ClientYs :
           LET x == (cx - offset.x) \div scale
               y == (cy - offset.y) \div scale
               inside == ~(x < 0 \/ x >= result.originalWidth
                           \/ y < 0 \/ y >= result.originalHeight)
               regionId == IF inside THEN result.regionMap[y * result.originalWidth + x]
                           ELSE -1
               found == FindRegion(result.regions, regionId)
           IN  /\ click' = [op |-> "fill", x |-> x, y |-> y]
               /\ filledRegions' =
                      IF /\ inside
                         /\ regionId >= 0
                         /\ activeColor # <<>>
                         /\ found # <<>>
                         /\ IsMatch(activeColor[1], found[1])
                         /\ regionId \notin filledRegions
                      THEN OnFillRegion(filledRegions, activeColor, regionId)
                      ELSE filledRegions
    /\ UNCHANGED <<stage, activeColor, scale, offset, file, restored,
                   pipelineVars>>

NextPaint ==
    \/ SampleCentroid
    \/ KMeansPass
    \/ Compact
    \/ ExtractSkip
    \/ ExtractStart
    \/ FloodStep
    \/ RegionPush
    \/ MergeSetup
    \/ MergeStep
    \/ MergeDone
    \/ FinalizeRegion
    \/ Return
    \/ StartSession
    \/ SelectColor
    \/ Zoom
    \/ Pan
    \/ PerformFill

SpecPaint == InitPaint /\ [][NextPaint]_vars

---------------------------------------------------------------------------
(* Vocabulary of the properties *)

\* a ProcessedImage has been returned
Emitted == pc = "done"

\* the emitted regions, palette and regionMap
ER == result.regions
EP == result.palette
EM == result.regionMap

Pixels == 0 .. pixelCount - 1
SeqSet(q) == {q[k] : k \in 1 .. Len(q)}
Occurrences(q, x) == Cardinality({k \in 1 .. Len(q) : q[k] = x})

RECURSIVE SumSizes(_, _)
SumSizes(rs, k) == IF k > Len(rs) THEN 0 ELSE Len(rs[k].pixels) + SumSizes(rs, k + 1)

\* the emitted regions of palette index c
OfColor(c) == SelectSeq(ER, LAMBDA r : r.colorId = c)

\* the 4-neighbours of pixel p inside the image, by coordinates
Around(p) ==
    LET x == p % width
        y == p \div width
    IN  {q \in {p - width, p + width, p - 1, p + 1} :
            /\ q \in Pixels
            /\ \/ (q % width = x /\ (q \div width = y - 1 \/ q \div width = y + 1))
               \/ (q \div width = y /\ (q % width = x - 1 \/ q % width = x + 1))}

\* p has a 4-neighbour outside the image
OnPerimeter(p) ==
    \/ p % width = 0 \/ p % width = width - 1
    \/ p \div width = 0 \/ p \div width = height - 1

\* the pixels joined to the pixels of S by 4-steps through pixels that
\* regionMap gives to region id
RECURSIVE Component(_, _)
Component(S, id) ==
    LET T == S \cup {q \in UNION {Around(p) : p \in S} : EM[q] = id}
    IN  IF T = S THEN S ELSE Component(T, id)

\* the merge loop absorbed a region somewhere
SomeMerge == \E k \in 1 .. Len(visitLog) : visitLog[k].best # -1

\* the merge loop merged something into region id
Absorbed(id) == \E k \in 1 .. Len(visitLog) : visitLog[k].best = id

\* the threshold as the specification states it
SpecMinSize == IF pixelCount \div 40000 > 20 THEN pixelCount \div 40000 ELSE 20

\* the colour of pixel i of the input
InputRGB(i) == <<data[4 * i + 1], data[4 * i + 2], data[4 * i + 3]>>

UniformInput ==
    /\ pixelCount > 0
    /\ Len(data) = 4 * pixelCount
    /\ \A i \in Pixels : InputRGB(i) = InputRGB(0)

\* the 2x2 image with a red top row and a green bottom row
TwoByTwoInput ==
    /\ width = 2 /\ height = 2
    /\ data = <<255, 0, 0, 255,  255, 0, 0, 255,  0, 255, 0, 255,  0, 255, 0, 255>>

---------------------------------------------------------------------------
(* Properties *)

\* C1: on the emitted result of a non-empty image every pixel belongs to
\* exactly one region: regionMap[p] is the id of an emitted region and not
\* -1, that region's pixels list holds p exactly once, no other region's
\* list holds p, and the region sizes add up to width*height.
C1_Partition ==
    (Emitted /\ pixelCount > 0) =>
        /\ DOMAIN EM = Pixels
        /\ \A p \in Pixels :
              /\ EM[p] # -1
              /\ \E k \in 1 .. Len(ER) : ER[k].id = EM[p]
              /\ \A k \in 1 .. Len(ER) :
                    Occurrences(ER[k].pixels, p) = IF ER[k].id = EM[p] THEN 1 ELSE 0
        /\ SumSizes(ER, 1) = width * height

\* a result with several regions, one of which absorbed another one
C1_Witness ==
    /\ Emitted
    /\ Len(ER) >= 2
    /\ SomeMerge

\* C2: the label anchor of every emitted region lies inside the image and
\* on a pixel that regionMap gives to that region.
C2_AnchorInside ==
    (Emitted /\ pixelCount > 0) =>
        \A k \in 1 .. Len(ER) :
            LET c == ER[k].centroid
            IN  /\ 0 <= c.x /\ c.x < width
                /\ 0 <= c.y /\ c.y < height
                /\ EM[c.y * width + c.x] = ER[k].id

\* a merged ring of at least 200 pixels (sampled search, step 2) whose raw
\* centroid falls outside of it
C2_Witness ==
    /\ Emitted
    /\ \E k \in 1 .. Len(ER) :
          LET raw == RawCentroid(ER[k].pixels, width)
          IN  /\ Len(ER[k].pixels) >= 200
              /\ Absorbed(ER[k].id)
              /\ EM[raw.y * width + raw.x] # ER[k].id

\* C3: borderPixels of an emitted region is a subset of its pixels, and a
\* pixel of the region is in it iff one of its four neighbours is outside
\* the image or in another region of the final regionMap; a pixel of the
\* first or last column is a border pixel.
C3_Borders ==
    (Emitted /\ pixelCount > 0) =>
        \A k \in 1 .. Len(ER) :
            LET r == ER[k]
                B == SeqSet(r.borderPixels)
            IN  /\ B \subseteq SeqSet(r.pixels)
                /\ \A p \in SeqSet(r.pixels) :
                      /\ p \in B <=>
                            (OnPerimeter(p) \/ \E q \in Around(p) : EM[q] # r.id)
                      /\ (p % width = 0 \/ p % width = width - 1) => p \in B

\* a region with interior pixels and with border pixels that lie inside
\* the image, next to another region
C3_Witness ==
    /\ Emitted
    /\ \E k \in 1 .. Len(ER) :
          /\ SeqSet(ER[k].pixels) \ SeqSet(ER[k].borderPixels) # {}
          /\ \E p \in SeqSet(ER[k].borderPixels) : ~OnPerimeter(p)

\* C4: the pixels of every emitted region form one 4-connected component
\* of the final regionMap.
C4_Connected ==
    (Emitted /\ pixelCount > 0) =>
        \A k \in 1 .. Len(ER) :
            /\ ER[k].pixels # <<>>
            /\ Component({ER[k].pixels[1]}, ER[k].id) = SeqSet(ER[k].pixels)

\* a region that absorbed a region which had itself absorbed another one,
\* next to a second emitted region
C4_Witness ==
    /\ Emitted
    /\ Len(ER) >= 2
    /\ \E j, k \in 1 .. Len(visitLog) :
          /\ visitLog[j].best = visitLog[k].id
          /\ visitLog[k].best # -1
          /\ \E m \in 1 .. Len(ER) : ER[m].id = visitLog[k].best

\* C5: every emitted region has at least max(20, floor(width*height/40000))
\* pixels or was visited by the merge pass while it had no active
\* neighbour, and no region visited below the threshold with an active
\* neighbour is emitted.
C5_MinSize ==
    (Emitted /\ pixelCount > 0) =>
        /\ \A k \in 1 .. Len(ER) :
              \/ Len(ER[k].pixels) >= SpecMinSize
              \/ \E j \in 1 .. Len(visitLog) :
                    /\ visitLog[j].id = ER[k].id
                    /\ visitLog[j].small
                    /\ visitLog[j].neighbors = <<>>
        /\ \A j \in 1 .. Len(visitLog) :
              (visitLog[j].size < SpecMinSize /\ visitLog[j].neighbors # <<>>)
                  => \A k \in 1 .. Len(ER) : ER[k].id # visitLog[j].id

\* two emitted regions while a small region with neighbours was visited
C5_Witness ==
    /\ Emitted
    /\ Len(ER) >= 2
    /\ \E j \in 1 .. Len(visitLog) :
          visitLog[j].size < SpecMinSize /\ visitLog[j].neighbors # <<>>

\* C6: the palette ids are 1..|palette| in order, and every emitted
\* region's colorId is an index 0..|palette|-1.
C6_PaletteIds ==
    (Emitted /\ pixelCount > 0) =>
        /\ \A i \in 1 .. Len(EP) : EP[i].id = i
        /\ \A k \in 1 .. Len(ER) : 0 <= ER[k].colorId /\ ER[k].colorId < Len(EP)

\* a palette of two colours compacted from the centroids 0 and 2, the
\* second colour carried by an emitted region
C6_Witness ==
    /\ Emitted
    /\ uniqueIndices = <<0, 2>>
    /\ \E k \in 1 .. Len(ER) : ER[k].colorId = 1

\* C7: palette[c].count is the number of pixels of the emitted regions of
\* colorId c, and the counts add up to width*height.
C7_Counts ==
    (Emitted /\ pixelCount > 0) =>
        /\ \A c \in 1 .. Len(EP) : EP[c].count = SumSizes(OfColor(c - 1), 1)
        /\ LET cs == [c \in 1 .. Len(EP) |-> [pixels |-> [i \in 1 .. EP[c].count |-> 0]]]
           IN  SumSizes(cs, 1) = width * height

\* two colours with emitted regions, one of which absorbed a region
C7_Witness ==
    /\ Emitted
    /\ SomeMerge
    /\ \E c, e \in 1 .. Len(EP) : c # e /\ EP[c].count > 1 /\ EP[e].count > 1

\* C8 as stated: the 2x2 image with a red top row and a green bottom row,
\* maxColors = 2, gives a palette of size 2 and two regions of size 2 with
\* regionMap = [a,a,b,b], a # b, each with borderPixels equal to its pixels.
C8_TwoRegions ==
    (Emitted /\ TwoByTwoInput /\ maxColors = 2) =>
        /\ Len(EP) = 2
        /\ Len(ER) = 2
        /\ \A k \in 1 .. Len(ER) :
              /\ Len(ER[k].pixels) = 2
              /\ SeqSet(ER[k].borderPixels) = SeqSet(ER[k].pixels)
        /\ EM[0] = EM[1] /\ EM[2] = EM[3] /\ EM[0] # EM[2]

\* C8 amended: the same input gives a palette of size 2 and one region of
\* size 4, the second extracted one (id 1), which absorbed the first one
\* because both are below dynamicMinSize = 20: regionMap = [1,1,1,1], the
\* region's borderPixels equal its pixels, and the top row's palette entry
\* has count 0.
C8_OneRegion ==
    (Emitted /\ TwoByTwoInput /\ maxColors = 2) =>
        /\ Len(EP) = 2
        /\ Len(ER) = 1
        /\ ER[1].id = 1
        /\ SeqSet(ER[1].pixels) = {0, 1, 2, 3}
        /\ Len(ER[1].pixels) = 4
        /\ ER[1].borderPixels = ER[1].pixels
        /\ \A p \in Pixels : EM[p] = 1
        /\ EP[ER[1].colorId + 1].rgb = Green
        /\ EP[ER[1].colorId + 1].count = 4
        /\ \E c \in 1 .. 2 : EP[c].rgb = Red /\ EP[c].count = 0

\* the 2x2 image has been processed with maxColors = 2 and its first region
\* was merged into the second one
C8_Witness ==
    /\ Emitted
    /\ TwoByTwoInput
    /\ maxColors = 2
    /\ Len(visitLog) = 2
    /\ visitLog[1].best = 1

\* C9: an image of one colour, maxColors >= 1, gives one palette entry of
\* that colour, one region with id 0 holding every pixel, regionMap = 0
\* everywhere and borderPixels = the perimeter of the rectangle; for 10x10
\* that is 36 border pixels and an anchor with x, y in {4, 5}.
C9_Uniform ==
    (Emitted /\ UniformInput /\ maxColors >= 1) =>
        /\ Len(EP) = 1
        /\ <<EP[1].rgb.r, EP[1].rgb.g, EP[1].rgb.b>> = InputRGB(0)
        /\ Len(ER) = 1
        /\ ER[1].id = 0
        /\ Len(ER[1].pixels) = width * height
        /\ SeqSet(ER[1].pixels) = Pixels
        /\ \A p \in Pixels : EM[p] = 0
        /\ SeqSet(ER[1].borderPixels) = {p \in Pixels : OnPerimeter(p)}
        /\ Len(ER[1].borderPixels) = Cardinality({p \in Pixels : OnPerimeter(p)})
        /\ (width = 10 /\ height = 10) =>
              /\ Len(ER[1].borderPixels) = 36
              /\ ER[1].centroid.x \in {4, 5}
              /\ ER[1].centroid.y \in {4, 5}

\* the uniform 10x10 image has been processed with several centroids
C9_Witness ==
    /\ Emitted
    /\ UniformInput
    /\ width = 10 /\ height = 10
    /\ maxColors >= 2
    /\ Len(ER[1].borderPixels) = 36

\* C10 as stated: no ProcessedImage is emitted when width or height is
\* zero or the buffer length differs from width*height*4 (the function has
\* no error result at all, so an emitted result is the only outcome).
C10_InvalidDimensions ==
    (width = 0 \/ height = 0 \/ Len(data) # width * height * 4) => ~Emitted

\* C11 as stated: a call with maxColors < 2 emits no ProcessedImage (the
\* function has no error result, so an emitted result is the only outcome
\* other than an exception).
C11_InvalidK ==
    maxColors < 2 => ~Emitted

\* C12 as stated: after a k-means pass with maxColors >= 2 every stored
\* assignment is the chosen cluster index and lies in [0, maxColors), and
\* once compaction has run every remapped assignment lies in
\* [0, |palette|).
C12_AssignmentRange ==
    (maxColors >= 2 /\ iter >= 1) =>
        /\ \A i \in Pixels :
              /\ assignments[i] = lastPass.best[i]
              /\ assignments[i] >= 0 /\ assignments[i] < maxColors
        /\ pc # "threw"
        /\ pc \notin {"kmeans", "compact", "threw"} =>
              \A i \in Pixels :
                  /\ remappedAssignments[i] >= 0
                  /\ remappedAssignments[i] < Len(tempPalette)

\* C13 as stated: the emitted ids are the positions in the emitted regions
\* sequence: regions[r].id = r for every position r, every regionMap value
\* is such a position, and regionMap[p] = r iff p is in the pixels of the
\* element at position r.
C13_DenseIds ==
    (Emitted /\ pixelCount > 0) =>
        /\ \A k \in 1 .. Len(ER) : ER[k].id = k - 1
        /\ \A p \in Pixels : EM[p] \in 0 .. Len(ER) - 1
        /\ \A p \in Pixels : \A k \in 1 .. Len(ER) :
              EM[p] = k - 1 <=> p \in SeqSet(ER[k].pixels)

\* C13, amended: region ids key the emitted regions by their id field, not
\* by position: regionMap[p] = r iff p is in the pixels of the emitted
\* region whose id is r; the emitted ids are distinct, in ascending order,
\* at least their position, and equal to their position when the merge pass
\* removed no region.
C13_IdsKeyRegions ==
    (Emitted /\ pixelCount > 0) =>
        /\ \A j, k \in 1 .. Len(ER) : j < k => ER[j].id < ER[k].id
        /\ \A k \in 1 .. Len(ER) : ER[k].id >= k - 1
        /\ \A p \in Pixels :
              /\ \E k \in 1 .. Len(ER) : ER[k].id = EM[p]
              /\ \A k \in 1 .. Len(ER) :
                    EM[p] = ER[k].id <=> p \in SeqSet(ER[k].pixels)
        /\ ~SomeMerge => \A k \in 1 .. Len(ER) : ER[k].id = k - 1

\* a result with several regions after a merge removed a region with a
\* smaller id than a kept one
C13_Witness ==
    /\ Emitted
    /\ SomeMerge
    /\ Len(ER) >= 2
    /\ \E k \in 1 .. Len(ER) : ER[k].id > k - 1

\* the pixels joined to the pixels of S by 4-steps through pixels of
\* quantized colour c: the region the extraction builds around S
RECURSIVE ColourComponent(_, _)
ColourComponent(S, c) ==
    LET T == S \cup {q \in UNION {Around(p) : p \in S} : remappedAssignments[q] = c}
    IN  IF T = S THEN S ELSE ColourComponent(T, c)

\* the extracted region around the 4-neighbours of pixel h
Surrounding(h) ==
    LET q0 == CHOOSE q \in Around(h) : TRUE
    IN  ColourComponent({q0}, remappedAssignments[q0])

\* h is a single pixel of its colour whose in-bounds 4-neighbours all
\* belong to one extracted region, of another colour, that has at least the
\* threshold number of pixels
Hole(h) ==
    /\ Around(h) # {}
    /\ \A q \in Around(h) : remappedAssignments[q] # remappedAssignments[h]
    /\ \A q, q2 \in Around(h) : remappedAssignments[q] = remappedAssignments[q2]
    /\ Around(h) \subseteq Surrounding(h)
    /\ Cardinality(Surrounding(h)) >= SpecMinSize

\* C14: a single-pixel hole inside one region of another colour with at
\* least dynamicMinSize pixels is absorbed: regionMap at the hole is the
\* surrounding region's id, the hole is in that region's pixels, the region
\* keeps its colorId, and no emitted region is the hole alone.
C14_HoleAbsorbed ==
    (Emitted /\ pixelCount > 0 /\ Len(data) = 4 * pixelCount) =>
        \A h \in Pixels :
            Hole(h) =>
                LET q0 == CHOOSE q \in Around(h) : TRUE
                IN  /\ EM[h] = EM[q0]
                    /\ \A q \in Surrounding(h) : EM[q] = EM[q0]
                    /\ \E k \in 1 .. Len(ER) :
                          /\ ER[k].id = EM[q0]
                          /\ h \in SeqSet(ER[k].pixels)
                          /\ Surrounding(h) \subseteq SeqSet(ER[k].pixels)
                          /\ ER[k].colorId = remappedAssignments[q0]
                          /\ ER[k].colorId # remappedAssignments[h]
                    /\ \A k \in 1 .. Len(ER) : SeqSet(ER[k].pixels) # {h}

\* a result for an image with a hole in the interior (four neighbours)
C14_Witness ==
    /\ Emitted
    /\ Len(data) = 4 * pixelCount
    /\ \E h \in Pixels : Hole(h) /\ Cardinality(Around(h)) = 4

\* C15 as stated: every entry of the emitted palette is the colour of at
\* least one emitted region and has a count greater than 0.
C15_PaletteSurvives ==
    (Emitted /\ pixelCount > 0) =>
        \A c \in 1 .. Len(EP) :
            /\ EP[c].count > 0
            /\ \E k \in 1 .. Len(ER) : ER[k].colorId = c - 1

\* C16 as stated: for maxColors >= 1 the emitted palette has at least 1 and
\* at most maxColors entries and no two entries have the same rgb triple.
C16_DistinctColours ==
    (Emitted /\ pixelCount > 0 /\ maxColors >= 1) =>
        /\ Len(EP) >= 1
        /\ Len(EP) <= maxColors
        /\ \A i, j \in 1 .. Len(EP) : i # j => EP[i].rgb # EP[j].rgb

Yiq1000(e) == 299 * e.rgb.r + 587 * e.rgb.g + 114 * e.rgb.b

\* C19: the textColor of every palette entry is black when
\* (299r + 587g + 114b) / 1000 >= 128, the value 128 included, and white
\* otherwise.
C19_TextColor ==
    (Emitted /\ pixelCount > 0) =>
        \A c \in 1 .. Len(EP) :
            /\ EP[c].textColor \in {"#000000", "#ffffff"}
            /\ EP[c].textColor = "#000000" <=> Yiq1000(EP[c]) >= 128000
            /\ EP[c].textColor = "#ffffff" <=> Yiq1000(EP[c]) < 128000

\* a palette with an entry of luminance exactly 128 and an entry just below
C19_Witness ==
    /\ Emitted
    /\ \E c \in 1 .. Len(EP) : Yiq1000(EP[c]) = 128000 /\ EP[c].textColor = "#000000"
    /\ \E c \in 1 .. Len(EP) : Yiq1000(EP[c]) = 127000 /\ EP[c].textColor = "#ffffff"

\* C20 as stated: after exporting a session to a .chroma file and loading
\* that file, regions, palette, pixelData and regionMap of the restored
\* processedData have the kind, the length and the elements they had
\* before the export.
C20_RoundTrip ==
    restored.loaded =>
        LET before == ProcessedData(result)
            after == restored.processedData
            Same(x, y) == /\ y.kind = x.kind
                          /\ y.length = x.length
                          /\ y.items = x.items
        IN  /\ Same(before.regions, after.regions)
            /\ Same(before.palette, after.palette)
            /\ Same(before.pixelData, after.pixelData)
            /\ Same(before.regionMap, after.regionMap)


\* the region a click at the image pixel (x, y) resolves to, by the
\* regionMap of the result: <<>> outside the image
ClickedRegion(x, y) ==
    IF x < 0 \/ x >= width \/ y < 0 \/ y >= height THEN <<>>
    ELSE SelectSeq(ER, LAMBDA r : r.id = EM[y * width + x])

\* C21: in a session started by processing an image no painter operation
\* changes the ProcessedImage; filledRegions never loses an id; only a
\* fill click changes it, and it adds exactly the id regionMap[y*width + x]
\* when the active colour's id is that region's colorId + 1 and the id is
\* not in the set, and nothing otherwise.
C21_PainterFrame ==
    [][stage = "coloring" =>
          /\ result' = result
          /\ regionMap' = regionMap /\ regions' = regions
          /\ tempPalette' = tempPalette
          /\ filledRegions \subseteq filledRegions'
          /\ click'.op # "fill" => filledRegions' = filledRegions
          /\ click'.op = "fill" =>
                LET r == ClickedRegion(click'.x, click'.y)
                IN  filledRegions' =
                        IF /\ r # <<>>
                           /\ activeColor # <<>>
                           /\ activeColor[1].id = r[1].colorId + 1
                           /\ r[1].id \notin filledRegions
                        THEN filledRegions \cup {r[1].id}
                        ELSE filledRegions]_vars

\* one region is filled, and the latest click, under a pan and a zoom, was
\* on a region of another colour than the active one and filled nothing
C21_Witness ==
    /\ stage = "coloring"
    /\ Cardinality(filledRegions) = 1
    /\ scale = 2 /\ offset.x = 1
    /\ click.op = "fill"
    /\ ClickedRegion(click.x, click.y) # <<>>
    /\ ClickedRegion(click.x, click.y)[1].colorId + 1 # activeColor[1].id
    /\ ClickedRegion(click.x, click.y)[1].id \notin filledRegions


\* the k-th neighbour position of pixel p in the order up, down, left,
\* right, by coordinates: -1 when it is outside the image
NeighbourAt(p, k) ==
    LET x == p % width
        y == p \div width
    IN  CASE k = 1 -> IF y > 0 THEN p - width ELSE -1
          [] k = 2 -> IF y < height - 1 THEN p + width ELSE -1
          [] k = 3 -> IF x > 0 THEN p - 1 ELSE -1
          [] OTHER -> IF x < width - 1 THEN p + 1 ELSE -1

\* the active regions other than cand that touch a pixel of cand
AdjacentActive(cand) ==
    {v \in SeqSet(activeRegions) \ {cand} :
        \E j \in 1 .. Len(regions[cand + 1].pixels), d \in 1 .. 4 :
            LET q == NeighbourAt(regions[cand + 1].pixels[j], d)
            IN  q # -1 /\ regionMap[q] = v}

\* the first moment of the scan of cand's pixels at which v is seen
FirstSeen(cand, v) ==
    LET px == regions[cand + 1].pixels
        T == {4 * j + d : j \in 1 .. Len(px), d \in 1 .. 4}
        S == {t \in T : LET q == NeighbourAt(px[(t - 1) \div 4], ((t - 1) % 4) + 1)
                        IN  q # -1 /\ regionMap[q] = v}
    IN  CHOOSE t \in S : \A u \in S : t <= u

\* squared distance of the palette colours of regions a and b
PaletteDist(a, b) ==
    LET c1 == tempPalette[regions[a + 1].colorId + 1].rgb
        c2 == tempPalette[regions[b + 1].colorId + 1].rgb
    IN  (c1.r - c2.r) * (c1.r - c2.r) + (c1.g - c2.g) * (c1.g - c2.g)
        + (c1.b - c2.b) * (c1.b - c2.b)

\* C22: a merge step that absorbs the candidate hands its pixels to one
\* region, which is active, touches the candidate, and has the palette
\* colour nearest to the candidate's among the active regions touching it,
\* the one seen first in the scan of the candidate's pixels among those at
\* that distance.
C22_NearestColourWins ==
    [][(pc = "merge" /\ activeRegions' # activeRegions) =>
          LET cand == sortedRegionIds[mergeIdx]
              W == {v \in 0 .. Len(regions) - 1 :
                       Len(regions'[v + 1].pixels) > Len(regions[v + 1].pixels)}
              N == AdjacentActive(cand)
          IN  /\ Cardinality(W) = 1
              /\ \A w \in W :
                    /\ w \in N
                    /\ \A v \in N : PaletteDist(cand, w) <= PaletteDist(cand, v)
                    /\ \A v \in N : PaletteDist(cand, v) = PaletteDist(cand, w)
                                        => FirstSeen(cand, w) <= FirstSeen(cand, v)]_vars


\* a merge whose candidate touched two active regions at different colour
\* distances and went to the nearer one, which was seen second and is the
\* smaller of the two
C22_Witness ==
    /\ pc = "merge"
    /\ Len(visitLog) > 0
    /\ LET v == visitLog[Len(visitLog)]
       IN  /\ v.best # -1
           /\ Len(v.neighbors) >= 2
           /\ v.best # v.neighbors[1]
           /\ Len(regions[v.best + 1].pixels) - v.size
                 < Len(regions[v.neighbors[1] + 1].pixels)

\* a merge whose candidate touched two active regions at the same colour
\* distance and went to the one seen first
C22_TieWitness ==
    /\ pc = "merge"
    /\ Len(visitLog) > 0
    /\ LET v == visitLog[Len(visitLog)]
       IN  /\ v.best # -1
           /\ Len(v.neighbors) >= 2
           /\ v.best = v.neighbors[1]
           /\ regions[v.neighbors[2] + 1].colorId = regions[v.best + 1].colorId


\* regionMap and the pixel lists of the active regions agree
MapMatchesActive ==
    \A p \in Pixels :
        /\ regionMap[p] \in SeqSet(activeRegions)
        /\ p \in SeqSet(regions[regionMap[p] + 1].pixels)

\* the step of the merge loop, from the state before it to the state after
\* it: either nothing changes, or the candidate's pixels go to one other
\* active region and the candidate leaves the active set
MergeFrame ==
    LET cand == sortedRegionIds[mergeIdx]
        P == regions[cand + 1].pixels
        ids == 0 .. Len(regions) - 1
    IN  /\ Len(regions') = Len(regions)
        /\ \A v \in ids : regions'[v + 1].colorId = regions[v + 1].colorId
                            /\ regions'[v + 1].id = regions[v + 1].id
        /\ SeqSet(activeRegions') \subseteq SeqSet(activeRegions)
        /\ IF activeRegions' = activeRegions
           THEN regionMap' = regionMap /\ regions' = regions
           ELSE /\ SeqSet(activeRegions') = SeqSet(activeRegions) \ {cand}
                /\ cand \in SeqSet(activeRegions)
                /\ \E w \in SeqSet(activeRegions') :
                      /\ regions'[w + 1].pixels = regions[w + 1].pixels \o P
                      /\ \A v \in ids \ {w} :
                            regions'[v + 1].pixels = regions[v + 1].pixels
                      /\ \A p \in Pixels :
                            regionMap'[p] = IF p \in SeqSet(P) THEN w ELSE regionMap[p]

\* from the merge loop on, no region joins the active set
NoneRevived ==
    pc \in {"merge", "finalize"} =>
        \A v \in SeqSet(activeRegions') : v \in SeqSet(activeRegions)

\* C23: throughout the merge loop regionMap maps every pixel to an active
\* region whose pixels list holds it; a merge step hands the candidate's
\* current pixels, and no others, to the winner, rewrites regionMap for
\* exactly those pixels, removes only the candidate from the active set and
\* leaves the other pixel lists, the other regionMap entries and all
\* colorIds as they were; a removed region never becomes active again and
\* is not in the output.
C23_MergeFrame ==
    /\ [](pc = "merge" => MapMatchesActive)
    /\ [][pc = "merge" /\ pc' = "merge" => MergeFrame]_vars
    /\ [][NoneRevived]_vars
    /\ [](Emitted => \A k \in 1 .. Len(visitLog) :
                        visitLog[k].best # -1 =>
                            \A j \in 1 .. Len(ER) : ER[j].id # visitLog[k].id)

\* the loop has merged a region that had absorbed another one before, into
\* a region that had pixels of its own, and regions it did not touch remain
C23_Witness ==
    /\ pc = "merge"
    /\ \E j, k \in 1 .. Len(visitLog) :
          /\ j < k
          /\ k = Len(visitLog)
          /\ visitLog[j].best = visitLog[k].id
          /\ visitLog[k].best # -1
          /\ visitLog[k].size > visitLog[j].size
    /\ Len(activeRegions) >= 2


\* every extracted region has had its turn exactly once when the loop ends
VisitedOnce ==
    pc \in {"finalize", "done"} =>
        /\ Len(visitLog) = Len(regions)
        /\ \A v \in 0 .. Len(regions) - 1 :
              Cardinality({k \in 1 .. Len(visitLog) : visitLog[k].id = v}) = 1

\* C24 as stated: every extracted region is visited exactly once, and of
\* two regions visited one after the other the earlier one is, at its
\* visit, not larger than the later one at its visit.
C24_AscendingAtVisit ==
    /\ VisitedOnce
    /\ \A k \in 1 .. Len(visitLog) - 1 : visitLog[k].size <= visitLog[k + 1].size

\* the size a region had when the loop began: the size of the component of
\* its colour around its first pixel
ExtractedSize(v) ==
    Cardinality(ColourComponent({regions[v + 1].pixels[1]}, regions[v + 1].colorId))

\* C24 (amended): every extracted region is visited exactly once, in
\* ascending order of the size it was extracted with, and in ascending id
\* among regions extracted with the same size; a region has at its visit
\* at least the size it was extracted with.
C24_AscendingExtractedSize ==
    Emitted =>
        /\ VisitedOnce
        /\ \A k \in 1 .. Len(visitLog) :
              ExtractedSize(visitLog[k].id) <= visitLog[k].size
        /\ \A k \in 1 .. Len(visitLog) - 1 :
              LET a == visitLog[k].id
                  b == visitLog[k + 1].id
              IN  \/ ExtractedSize(a) < ExtractedSize(b)
                  \/ ExtractedSize(a) = ExtractedSize(b) /\ a < b

\* a finished run in which a waiting region grew by a merge and was, at
\* its visit, larger than the region visited after it
C24_Witness ==
    /\ Emitted
    /\ \E k \in 1 .. Len(visitLog) - 1 :
          /\ visitLog[k].size > visitLog[k + 1].size
          /\ visitLog[k].size > ExtractedSize(visitLog[k].id)


\* squared RGB distance of pixel i of the input to centroid c of cents
DistTo(i, cents, c) ==
    LET q == cents[c + 1]
    IN  (data[4 * i + 1] - q.r) * (data[4 * i + 1] - q.r)
        + (data[4 * i + 2] - q.g) * (data[4 * i + 2] - q.g)
        + (data[4 * i + 3] - q.b) * (data[4 * i + 3] - q.b)

\* a is the lowest index among the centroids of cents nearest to pixel i
NearestLowest(i, cents, a) ==
    \A c \in 0 .. maxColors - 1 :
        /\ DistTo(i, cents, a) <= DistTo(i, cents, c)
        /\ c < a => DistTo(i, cents, a) < DistTo(i, cents, c)

\* one pass, from the state before it to the state after it: the pixels go
\* to their nearest centroids, the clusters without pixels keep their
\* centroids, and the loop stops exactly when nothing moved or ten passes
\* are done
PassStep ==
    /\ iter' = iter + 1
    /\ iter' <= 10
    /\ \A i \in Pixels :
          /\ assignments'[i] \in 0 .. Max(maxColors - 1, 0)
          /\ NearestLowest(i, centroids, assignments'[i])
    /\ \A c \in 0 .. maxColors - 1 :
          (\A i \in Pixels : assignments'[i] # c) => centroids'[c + 1] = centroids[c + 1]
    /\ pc' = "compact" <=> (centroids' = centroids \/ iter' = 10)
    /\ pc' = "kmeans" <=> ~(centroids' = centroids \/ iter' = 10)

\* C25: k-means runs at least one and at most 10 passes and stops after a
\* pass exactly when the pass moved no centroid or was the 10th; a pass
\* assigns every pixel to the centroid at minimal squared distance, the
\* lowest index on ties, and leaves the centroid of a cluster without
\* pixels unchanged; after a stop before the 10th pass every pixel's
\* assignment is a nearest centroid with respect to the final centroids.
C25_KMeansPasses ==
    /\ [][iter' # iter => pc = "kmeans" /\ PassStep]_vars
    /\ [](pc \notin {"sample", "kmeans"} => iter \in 1 .. 10)
    /\ [](pc = "compact" /\ iter < 10 =>
            \A i \in Pixels : NearestLowest(i, centroids, assignments[i]))

\* the loop stopped after the 10th pass although that pass moved a
\* centroid, and a result was emitted
C25_Witness ==
    /\ Emitted
    /\ iter = 10
    /\ centroids # lastPass.cents

\* the loop stopped after its third pass, which moved nothing, with a
\* cluster that has no pixel
C25_EarlyStop ==
    /\ Emitted
    /\ iter = 3
    /\ centroids = lastPass.cents
    /\ \E c \in 0 .. maxColors - 1 : \A i \in Pixels : assignments[i] # c


\* the sum of v * (number of pixels of S whose coordinate is v) for the
\* coordinate values v below n; the coordinate is x when xs holds, else y
RECURSIVE CoordSum(_, _, _)
CoordSum(S, xs, n) ==
    IF n = 0 THEN 0
    ELSE CoordSum(S, xs, n - 1)
         + (n - 1) * Cardinality({p \in S : (IF xs THEN p % width ELSE p \div width) = n - 1})

\* c is the mean sum / n rounded to the nearest integer, a half rounded up
RoundedMean(c, sum, n) == 2 * n * c <= 2 * sum + n /\ 2 * sum + n < 2 * n * (c + 1)

\* squared distance of pixel p to the point (cx, cy)
PointDist(p, cx, cy) ==
    ((p % width) - cx) * ((p % width) - cx) + ((p \div width) - cy) * ((p \div width) - cy)

\* the point (cx, cy) is the rounded mean of the pixels of region r
IsRawCentroid(r, cx, cy) ==
    /\ RoundedMean(cx, CoordSum(SeqSet(r.pixels), TRUE, width), Len(r.pixels))
    /\ RoundedMean(cy, CoordSum(SeqSet(r.pixels), FALSE, height), Len(r.pixels))

\* the anchor of region r, given its raw centroid (cx, cy)
AnchorRule(r, cx, cy) ==
    IF EM[cy * width + cx] = r.id
    THEN r.centroid = [x |-> cx, y |-> cy]
    ELSE LET size == Len(r.pixels)
             step == IF size \div 100 > 1 THEN size \div 100 ELSE 1
             J == {j \in 0 .. size - 1 : j % step = 0}
         IN  /\ \E j \in J :
                   /\ r.centroid = [x |-> r.pixels[j + 1] % width,
                                    y |-> r.pixels[j + 1] \div width]
                   /\ \A i \in J :
                         /\ PointDist(r.pixels[j + 1], cx, cy)
                               <= PointDist(r.pixels[i + 1], cx, cy)
                         /\ i < j => PointDist(r.pixels[j + 1], cx, cy)
                                       < PointDist(r.pixels[i + 1], cx, cy)
             /\ size < 200 =>
                   \A i \in 0 .. size - 1 :
                       PointDist(r.centroid.y * width + r.centroid.x, cx, cy)
                           <= PointDist(r.pixels[i + 1], cx, cy)

\* C26: the anchor of every emitted region is its raw centroid, the rounded
\* mean of its pixels' coordinates, when that pixel is in the region;
\* otherwise it is the pixel nearest to the raw centroid among the list
\* positions 0, step, 2*step, ... with step = max(1, floor(size/100)), the
\* earliest on ties, which is nearest among all pixels of a region of fewer
\* than 200 pixels.
C26_AnchorRule ==
    Emitted =>
        \A k \in 1 .. Len(ER) :
            \E cx \in 0 .. width - 1, cy \in 0 .. height - 1 :
                /\ IsRawCentroid(ER[k], cx, cy)
                /\ AnchorRule(ER[k], cx, cy)

\* an emitted region of at least 200 pixels whose raw centroid is outside
\* it, anchored at a sampled pixel that has an equally near sample behind it
C26_Witness ==
    /\ Emitted
    /\ \E k \in 1 .. Len(ER) :
          LET r == ER[k]
              d == PointDist(r.centroid.y * width + r.centroid.x, 7, 7)
          IN  /\ Len(r.pixels) >= 200
              /\ width = 15
              /\ IsRawCentroid(r, 7, 7)
              /\ EM[7 * width + 7] # r.id
              /\ \E i \in 1 .. Len(r.pixels) :
                    /\ i % 2 = 1
                    /\ PointDist(r.pixels[i], 7, 7) = d
                    /\ r.pixels[i] # r.centroid.y * width + r.centroid.x

\* an emitted region of at least 200 pixels whose anchor is farther from
\* the raw centroid than some pixel of the region
C26_SampleMisses ==
    /\ Emitted
    /\ width = 15
    /\ \E k \in 1 .. Len(ER) :
          /\ Len(ER[k].pixels) >= 200
          /\ EM[7 * width + 7] # ER[k].id
          /\ \E i \in 1 .. Len(ER[k].pixels) :
                PointDist(ER[k].pixels[i], 7, 7)
                    < PointDist(ER[k].centroid.y * width + ER[k].centroid.x, 7, 7)


\* the extraction loop has ended and the merge pass has not begun
Extracted == pc = "extract" /\ scanI >= pixelCount

\* the lowest pixel index of region k of the regions array
LowestPixel(k) ==
    CHOOSE p \in SeqSet(regions[k].pixels) : \A q \in SeqSet(regions[k].pixels) : p <= q

\* C27: right after extraction the regions are exactly the maximal
\* 4-connected components of equal remapped colour (joined by up, down,
\* left and right steps inside the image, not diagonally and not across a
\* row end), for one-row and one-column images too, every pixel is in the
\* region regionMap names, and the ids 0, 1, 2, ... follow the row-major
\* order of the regions' lowest pixel indexes.
C27_Components ==
    Extracted =>
        /\ \A p \in Pixels : \E k \in 1 .. Len(regions) : regionMap[p] = regions[k].id
        /\ \A k \in 1 .. Len(regions) :
              LET r == regions[k]
              IN  /\ r.id = k - 1
                  /\ r.pixels # <<>>
                  /\ Len(r.pixels) = Cardinality(SeqSet(r.pixels))
                  /\ SeqSet(r.pixels) = ColourComponent({r.pixels[1]}, r.colorId)
                  /\ \A p \in SeqSet(r.pixels) :
                        regionMap[p] = r.id /\ remappedAssignments[p] = r.colorId
                  /\ k > 1 => LowestPixel(k - 1) < LowestPixel(k)

\* extraction of an image of more than one row has kept apart two pixels
\* of one colour that touch diagonally, and two that are the last pixel of
\* one row and the first of the next
C27_Witness ==
    /\ Extracted
    /\ height > 1 /\ width > 1
    /\ \E p \in Pixels :
          /\ p % width < width - 1
          /\ p + width + 1 \in Pixels
          /\ remappedAssignments[p] = remappedAssignments[p + width + 1]
          /\ regionMap[p] # regionMap[p + width + 1]
    /\ \E p \in Pixels :
          /\ p % width = width - 1
          /\ p + 1 \in Pixels
          /\ remappedAssignments[p] = remappedAssignments[p + 1]
          /\ regionMap[p] # regionMap[p + 1]

\* extraction of a one-column image has joined two pixels of one colour
\* that are one below the other
C27_OneColumn ==
    /\ Extracted
    /\ width = 1 /\ height > 2
    /\ Len(regions) > 1
    /\ \E p \in Pixels : p + 1 \in Pixels /\ regionMap[p] = regionMap[p + 1]


\* a step of the merge loop that leaves a candidate below the threshold in
\* the active set finds it alone there, holding every pixel
SmallStaysOnlyAlone ==
    (/\ pc = "merge" /\ pc' = "merge"
     /\ Len(regions[sortedRegionIds[mergeIdx] + 1].pixels) < SpecMinSize
     /\ activeRegions' = activeRegions)
        => /\ SeqSet(activeRegions) = {sortedRegionIds[mergeIdx]}
           /\ SeqSet(regions[sortedRegionIds[mergeIdx] + 1].pixels) = Pixels

\* C28: a region below dynamicMinSize survives the merge pass only when it
\* is the only active region and covers the whole image; an output of two
\* or more regions has no region below dynamicMinSize, and an image of
\* fewer than 20 pixels is emitted as exactly one region.
C28_SmallOnlyAlone ==
    /\ [][SmallStaysOnlyAlone]_vars
    /\ []((Emitted /\ pixelCount > 0) =>
            /\ Len(ER) >= 2 => \A k \in 1 .. Len(ER) : Len(ER[k].pixels) >= SpecMinSize
            /\ (\E k \in 1 .. Len(ER) : Len(ER[k].pixels) < SpecMinSize)
                  => Len(ER) = 1 /\ SeqSet(ER[1].pixels) = Pixels
            /\ pixelCount < 20 => Len(ER) = 1)

\* an image of fewer than 20 pixels in two colours, extracted as three or
\* more regions, has been emitted as one region that was below the
\* threshold and alone at its turn
C28_Witness ==
    /\ Emitted
    /\ pixelCount < 20
    /\ Len(regions) >= 3
    /\ Len(EP) = 2
    /\ Len(ER) = 1
    /\ \E j \in 1 .. Len(visitLog) :
          /\ visitLog[j].id = ER[1].id
          /\ visitLog[j].small
          /\ visitLog[j].neighbors = <<>>


\* the sum of channel ch (1, 2, 3 for R, G, B) of the input over the pixels
\* of S with indexes lo .. hi - 1
RECURSIVE ChannelSum(_, _, _, _)
ChannelSum(S, ch, lo, hi) ==
    IF hi <= lo THEN 0
    ELSE IF hi = lo + 1 THEN (IF lo \in S THEN data[4 * lo + ch] ELSE 0)
    ELSE ChannelSum(S, ch, lo, (lo + hi) \div 2)
         + ChannelSum(S, ch, (lo + hi) \div 2, hi)

\* rgb is the mean colour of the pixels of S, every channel rounded half up
IsMeanColour(rgb, S) ==
    /\ RoundedMean(rgb.r, ChannelSum(S, 1, 0, pixelCount), Cardinality(S))
    /\ RoundedMean(rgb.g, ChannelSum(S, 2, 0, pixelCount), Cardinality(S))
    /\ RoundedMean(rgb.b, ChannelSum(S, 3, 0, pixelCount), Cardinality(S))

\* the pixels that carry palette index j before merging
Carrying(j) == {p \in Pixels : remappedAssignments[p] = j}

\* C29: on output, for maxColors >= 1, every palette entry's rgb is the
\* mean, rounded half up per channel, of the input pixels that carry its
\* colour before merging, which are exactly the pixels the last k-means
\* pass gave to one cluster; every channel is an integer in 0..255.
C29_PaletteIsMean ==
    (Emitted /\ maxColors >= 1) =>
        \A j \in 1 .. Len(EP) :
            /\ EP[j].rgb.r \in 0 .. 255
            /\ EP[j].rgb.g \in 0 .. 255
            /\ EP[j].rgb.b \in 0 .. 255
            /\ Carrying(j - 1) # {}
            /\ \E c \in 0 .. maxColors - 1 :
                  Carrying(j - 1) = {p \in Pixels : lastPass.best[p] = c}
            /\ IsMeanColour(EP[j].rgb, Carrying(j - 1))

\* the loop ran its 10 passes and the last one changed the colour of a
\* cluster that is in the palette
C29_Witness ==
    /\ Emitted
    /\ iter = 10
    /\ \E j \in 1 .. Len(EP), c \in 0 .. maxColors - 1 :
          /\ Carrying(j - 1) = {p \in Pixels : lastPass.best[p] = c}
          /\ Carrying(j - 1) # {}
          /\ EP[j].rgb # lastPass.cents[c + 1]

\* an early stop with a palette colour that is a mean rounded up from a
\* half, which no input pixel has
C29_RoundedUp ==
    /\ Emitted
    /\ iter < 10
    /\ \E j \in 1 .. Len(EP) :
          /\ EP[j].rgb.r = 128
          /\ 2 * ChannelSum(Carrying(j - 1), 1, 0, pixelCount)
                = 255 * Cardinality(Carrying(j - 1))


\* the work of the loops is bounded: at most 10 passes; the stack never
\* holds more than width*height indexes, holds no index twice and only
\* visited, unlabelled pixels; after extraction every pixel has been
\* labelled once; after the merge loop every region has had one turn
WorkBounded ==
    /\ iter <= 10
    /\ maxStackPtr <= pixelCount
    /\ stackPtr <= maxStackPtr
    /\ pc = "fill" =>
          /\ \A a, b \in 0 .. stackPtr - 1 : a # b => stack[a] # stack[b]
          /\ \A a \in 0 .. stackPtr - 1 :
                /\ visited[stack[a]] = 1
                /\ regionMap[stack[a]] = -1
                /\ \A k \in 1 .. Len(regionPixels) : regionPixels[k] # stack[a]
          /\ Len(regionPixels) = Cardinality(SeqSet(regionPixels))
    /\ Extracted =>
          \A p \in Pixels :
              Cardinality({k \in 1 .. Len(regions) :
                              Occurrences(regions[k].pixels, p) = 1}) = 1
    /\ VisitedOnce

\* a call with a non-empty image and maxColors >= 1
NonEmptyCall == width > 0 /\ height > 0 /\ maxColors >= 1

\* the phases of the function in the order they run
PhaseRank ==
    CASE pc = "sample" -> 0
      [] pc = "kmeans" -> 1
      [] pc = "compact" -> 2
      [] pc \in {"extract", "fill"} -> 3
      [] pc = "merge" -> 4
      [] pc = "finalize" -> 5
      [] OTHER -> 6

\* the work left in the running phase: samples to draw, passes allowed,
\* pixels to scan and to label, regions to visit, regions to finalize
WorkLeft ==
    CASE pc = "sample" -> Max(maxColors, 1) - Len(centroids)
      [] pc = "kmeans" -> 10 - iter
      [] pc \in {"extract", "fill"} ->
            2 * (pixelCount - scanI)
            + Cardinality({p \in Pixels : regionMap[p] = -1})
            + (IF pc = "extract" THEN 1 ELSE 0)
      [] pc = "merge" -> Len(sortedRegionIds) + 1 - mergeIdx
      [] pc = "finalize" -> Len(finalRegions) + 1 - finIdx
      [] OTHER -> 0

\* a step of the function enters a later phase or reduces the work left in
\* the running one
Advances ==
    pc' # pc \/ pipelineVars' # pipelineVars =>
        \/ PhaseRank' > PhaseRank
        \/ PhaseRank' = PhaseRank /\ WorkLeft' < WorkLeft

\* C30: for a non-empty image and maxColors >= 1 the processor ends with a
\* result: no run is aborted, every step enters a later phase or reduces
\* the bounded work left in its phase; k-means ends within 10 passes, the
\* flood fill holds each pixel index on its stack at most once and never
\* more than width*height of them, every pixel is popped and labelled
\* exactly once, and the merge loop visits each extracted region exactly
\* once.
C30_Terminates ==
    /\ [](NonEmptyCall => pc # "threw")
    /\ [](WorkLeft >= 0)
    /\ [][Advances]_vars
    /\ []WorkBounded

\* the same without the runs that are aborted
C30_UnlessAborted ==
    /\ [](WorkLeft >= 0)
    /\ [][Advances]_vars
    /\ []WorkBounded

====
